---- MODULE Spec2Model ----
(***************************************************************************)
(* Moving-load analysis of a simply supported beam (src/task.py,           *)
(* analyze_beam): validation, grid construction, the double sweep that     *)
(* fills the reaction samples and the shear / moment fields, and the       *)
(* reduction of the fields to the envelope result.                         *)
(*                                                                         *)
(* Numbers.  The program computes with Python floats.  The model computes  *)
(* with exact rationals <<n, d>> (d > 0, lowest terms), extended by the    *)
(* two infinities <<-1, 0>> and <<1, 0>> that the program creates with     *)
(* -float('inf') and abs(-float('inf')).  Rounding error of the floating   *)
(* point operations is therefore outside the model.                        *)
(*                                                                         *)
(* Names.  SF_ opens a fairness operator in TLA+, so the program's         *)
(* SF_values and SF_01 are written SFvalues and SF01.                      *)
(*                                                                         *)
(* Resolution.  The program fixes num_points = 1000.  The model keeps      *)
(* num_points as a variable drawn from 2..MaxPoints so that the fields     *)
(* stay small enough to enumerate and so that two resolutions can be       *)
(* compared.                                                               *)
(***************************************************************************)
EXTENDS Integers, Sequences, FiniteSets, TLC

MaxL == 4
MaxW == 3
MaxPoints == 5

VARIABLES L, W1, W2, x, num_points, pc, err, i, positions,
          Ra_values, Rb_values, SFvalues, BM_values,
          max_Ra_index, max_Rb_index,
          max_SF, max_SF_position, max_SF_w1_position,
          max_BM, max_BM_position, max_BM_w1_position,
          results

vars == <<L, W1, W2, x, num_points, pc, err, i, positions,
          Ra_values, Rb_values, SFvalues, BM_values,
          max_Ra_index, max_Rb_index,
          max_SF, max_SF_position, max_SF_w1_position,
          max_BM, max_BM_position, max_BM_w1_position,
          results>>

-----------------------------------------------------------------------------
(* Exact arithmetic standing for the float operations of the program.      *)

RECURSIVE GCD(_, _)
GCD(a, b) == IF b = 0 THEN a ELSE GCD(b, a % b)

IAbs(n) == IF n < 0 THEN -n ELSE n

Norm(n, d) ==
  LET g == GCD(IAbs(n), d) IN <<n \div g, d \div g>>

R(n) == <<n, 1>>

NegInf == <<-1, 0>>
Unbound == <<0, 0>>

IsFinite(a) == a[2] > 0

RAdd(a, b) == Norm(a[1] * b[2] + b[1] * a[2], a[2] * b[2])
RSub(a, b) == Norm(a[1] * b[2] - b[1] * a[2], a[2] * b[2])
RMul(a, b) == Norm(a[1] * b[1], a[2] * b[2])
RDiv(a, b) ==
  IF b[1] > 0 THEN Norm(a[1] * b[2], a[2] * b[1])
  ELSE Norm(-(a[1] * b[2]), a[2] * (-b[1]))

RLt(a, b) ==
  IF a[2] = 0 /\ b[2] = 0 THEN a[1] < b[1]
  ELSE a[1] * b[2] < b[1] * a[2]
RLe(a, b) == a = b \/ RLt(a, b)
RGt(a, b) == RLt(b, a)
RGe(a, b) == RLe(b, a)

RAbs(a) == <<IAbs(a[1]), a[2]>>

-----------------------------------------------------------------------------
(* Variant: the upper limit of the spacing is not checked.                  *)
ValidationError_NoUpper(l, w1, w2, d) ==
  IF l <= 0 THEN "length"
  ELSE IF d < 0 THEN "distance"
  ELSE IF w1 <= 0 \/ w2 <= 0 THEN "load"
  ELSE "none"

(* Input validation, lines 27-33: the first failing check decides.         *)

ValidationError(l, w1, w2, d) ==
  IF l <= 0 THEN "length"
  ELSE IF d < 0 \/ d > l THEN "distance"
  ELSE IF w1 <= 0 \/ w2 <= 0 THEN "load"
  ELSE "none"

(* Variant: linspace with the right endpoint excluded.                     *)
Linspace_NoEndpoint(l, n) == [k \in 0 .. (n - 1) |-> RDiv(R(k * l), R(n))]

(* np.linspace(0, L, n): n points, both endpoints included.                *)
Linspace(l, n) == [k \in 0 .. (n - 1) |-> RDiv(R(k * l), R(n - 1))]

(* np.zeros *)
Zeros1(n) == [k \in 0 .. (n - 1) |-> R(0)]
Zeros2(n) == [k \in 0 .. (n - 1) |-> Zeros1(n)]

(* Variant: the trailing load is placed at y instead of y + x.              *)
ReactionA_NoSpacing(y) ==
  IF RLe(RAdd(y, R(x)), R(L))
  THEN RAdd(RDiv(RMul(R(W1), RSub(R(L), y)), R(L)),
            RDiv(RMul(R(W2), RSub(R(L), y)), R(L)))
  ELSE RDiv(RMul(R(W1), RSub(R(L), y)), R(L))

(* Variant: the trailing load is counted even when it is off the span.     *)
ReactionB_NoSpanCheck(y) ==
  RAdd(RDiv(RMul(R(W1), y), R(L)), RDiv(RMul(R(W2), RAdd(y, R(x))), R(L)))

(* Reactions for W1 at y, lines 51-70.                                     *)
ReactionA(y) ==
  IF RLe(y, R(L)) THEN
    IF RLe(RAdd(y, R(x)), R(L)) THEN
      LET Ra_w1 == RDiv(RMul(R(W1), RSub(R(L), y)), R(L))
          Ra_w2 == IF RGe(RAdd(y, R(x)), R(0))
                   THEN RDiv(RMul(R(W2), RSub(R(L), RAdd(y, R(x)))), R(L))
                   ELSE R(0)
      IN RAdd(Ra_w1, Ra_w2)
    ELSE RDiv(RMul(R(W1), RSub(R(L), y)), R(L))
  ELSE R(0)

ReactionB(y) ==
  IF RLe(y, R(L)) THEN
    IF RLe(RAdd(y, R(x)), R(L)) THEN
      LET Rb_w1 == RDiv(RMul(R(W1), y), R(L))
          Rb_w2 == IF RGe(RAdd(y, R(x)), R(0))
                   THEN RDiv(RMul(R(W2), RAdd(y, R(x))), R(L))
                   ELSE R(0)
      IN RAdd(Rb_w1, Rb_w2)
    ELSE RDiv(RMul(R(W1), y), R(L))
  ELSE R(0)

(* Shear at observation point z for W1 at y, lines 78-95.                  *)
ShearForce(z, y, Ra) ==
  LET b == RAdd(y, R(x))
      onSpan == RLe(b, R(L))
  IN IF RLt(z, y) THEN Ra
     ELSE IF z = y THEN RSub(Ra, RDiv(R(W1), R(2)))
     ELSE IF RLt(z, b) /\ onSpan THEN RSub(Ra, R(W1))
     ELSE IF z = b /\ onSpan THEN RSub(RSub(Ra, R(W1)), RDiv(R(W2), R(2)))
     ELSE IF RGt(z, b) /\ onSpan THEN RSub(RSub(Ra, R(W1)), R(W2))
     ELSE RSub(Ra, R(W1))

(* Variant: the trailing load's term is missing behind the trailing load.  *)
BendingMoment_NoW2(z, y, Ra) ==
  IF RLt(z, y) THEN RMul(Ra, z)
  ELSE RSub(RMul(Ra, z), RMul(R(W1), RSub(z, y)))

(* Variant: the final branch forgets the leading load's term.              *)
BendingMoment_ElseRaZ(z, y, Ra) ==
  LET b == RAdd(y, R(x))
      onSpan == RLe(b, R(L))
  IN IF RLt(z, y) THEN RMul(Ra, z)
     ELSE IF RGt(z, y) /\ RLt(z, b) /\ onSpan
       THEN RSub(RMul(Ra, z), RMul(R(W1), RSub(z, y)))
     ELSE IF RGt(z, b) /\ onSpan
       THEN RSub(RSub(RMul(Ra, z), RMul(R(W1), RSub(z, y))),
                 RMul(R(W2), RSub(z, b)))
     ELSE RMul(Ra, z)

(* Moment at observation point z for W1 at y, lines 100-111.               *)
BendingMoment(z, y, Ra) ==
  LET b == RAdd(y, R(x))
      onSpan == RLe(b, R(L))
  IN IF RLt(z, y) THEN RMul(Ra, z)
     ELSE IF RGt(z, y) /\ RLt(z, b) /\ onSpan
       THEN RSub(RMul(Ra, z), RMul(R(W1), RSub(z, y)))
     ELSE IF RGt(z, b) /\ onSpan
       THEN RSub(RSub(RMul(Ra, z), RMul(R(W1), RSub(z, y))),
                 RMul(R(W2), RSub(z, b)))
     ELSE RSub(RMul(Ra, z), RMul(R(W1), RSub(z, y)))

(* One row of each field: the inner loop, lines 76-113.                    *)
ShearRow(pos, y) ==
  [j \in DOMAIN pos |-> ShearForce(pos[j], y, ReactionA(y))]
MomentRow(pos, y) ==
  [j \in DOMAIN pos |-> BendingMoment(pos[j], y, ReactionA(y))]

(* Variant: the last index of the largest value.                           *)
ArgMax_Last(f) ==
  CHOOSE k \in DOMAIN f :
    /\ \A m \in DOMAIN f : RLe(f[m], f[k])
    /\ \A m \in DOMAIN f : m > k => f[m] # f[k]

(* np.argmax / np.argmin on a one-dimensional array: first index of the    *)
(* extreme value.                                                          *)
ArgMax(f) ==
  CHOOSE k \in DOMAIN f :
    /\ \A m \in DOMAIN f : RLe(f[m], f[k])
    /\ \A m \in DOMAIN f : m < k => f[m] # f[k]
ArgMin(f) ==
  CHOOSE k \in DOMAIN f :
    /\ \A m \in DOMAIN f : RLe(f[k], f[m])
    /\ \A m \in DOMAIN f : m < k => f[m] # f[k]

AbsRow(f) == [k \in DOMAIN f |-> RAbs(f[k])]

-----------------------------------------------------------------------------
Init ==
  /\ L \in -1 .. MaxL
  /\ x \in -1 .. (MaxL + 1)
  /\ W1 \in 0 .. MaxW
  /\ W2 \in 0 .. MaxW
  /\ num_points \in 2 .. MaxPoints
  /\ pc = "validate"
  /\ err = "none"
  /\ i = 0
  /\ positions = <<>>
  /\ Ra_values = <<>>
  /\ Rb_values = <<>>
  /\ SFvalues = <<>>
  /\ BM_values = <<>>
  /\ max_Ra_index = 0
  /\ max_Rb_index = 0
  /\ max_SF = Unbound
  /\ max_SF_position = Unbound
  /\ max_SF_w1_position = Unbound
  /\ max_BM = Unbound
  /\ max_BM_position = Unbound
  /\ max_BM_w1_position = Unbound
  /\ results = <<>>

inputs == <<L, W1, W2, x, num_points>>
fields == <<positions, Ra_values, Rb_values, SFvalues, BM_values>>
reactionMax == <<max_Ra_index, max_Rb_index>>
shearMax == <<max_SF, max_SF_position, max_SF_w1_position>>
momentMax == <<max_BM, max_BM_position, max_BM_w1_position>>

(* lines 27-33 *)
Validate ==
  /\ pc = "validate"
  /\ err' = ValidationError(L, W1, W2, x)
  /\ pc' = IF err' = "none" THEN "grid" ELSE "raised"
  /\ UNCHANGED <<inputs, i, fields, reactionMax, shearMax, momentMax, results>>

(* lines 36-47 *)
BuildGrid ==
  /\ pc = "grid"
  /\ positions' = Linspace(L, num_points)
  /\ Ra_values' = Zeros1(num_points)
  /\ Rb_values' = Zeros1(num_points)
  /\ BM_values' = Zeros2(num_points)
  /\ SFvalues' = Zeros2(num_points)
  /\ i' = 0
  /\ pc' = "sweep"
  /\ UNCHANGED <<inputs, err, reactionMax, shearMax, momentMax, results>>

(* one iteration of the outer loop, lines 50-113 *)
SweepRow ==
  /\ pc = "sweep"
  /\ i < num_points
  /\ LET y == positions[i] IN
       /\ Ra_values' = [Ra_values EXCEPT ![i] = ReactionA(y)]
       /\ Rb_values' = [Rb_values EXCEPT ![i] = ReactionB(y)]
       /\ SFvalues' = [SFvalues EXCEPT ![i] = ShearRow(positions, y)]
       /\ BM_values' = [BM_values EXCEPT ![i] = MomentRow(positions, y)]
  /\ i' = i + 1
  /\ UNCHANGED <<inputs, pc, err, positions, reactionMax, shearMax,
                 momentMax, results>>

(* lines 116-127 *)
FindMaxReactions ==
  /\ pc = "sweep"
  /\ i = num_points
  /\ max_Ra_index' = ArgMax(Ra_values)
  /\ max_Rb_index' = ArgMax(Rb_values)
  /\ max_SF' = NegInf
  /\ max_SF_position' = R(0)
  /\ max_SF_w1_position' = R(0)
  /\ i' = 0
  /\ pc' = "scanSF"
  /\ UNCHANGED <<inputs, err, fields, momentMax, results>>

(* the test of line 131 *)
ShearImproves(candidate, best) == RGt(RAbs(candidate), RAbs(best))

(* one iteration of the loop of lines 129-134 *)
ScanSF ==
  /\ pc = "scanSF"
  /\ i < num_points
  /\ LET max_index == ArgMax(AbsRow(SFvalues[i])) IN
       IF ShearImproves(SFvalues[i][max_index], max_SF)
       THEN /\ max_SF' = SFvalues[i][max_index]
            /\ max_SF_position' = positions[max_index]
            /\ max_SF_w1_position' = positions[i]
       ELSE UNCHANGED shearMax
  /\ i' = i + 1
  /\ UNCHANGED <<inputs, pc, err, fields, reactionMax, momentMax, results>>

(* lines 137-139 *)
BeginScanBM ==
  /\ pc = "scanSF"
  /\ i = num_points
  /\ max_BM' = NegInf
  /\ max_BM_position' = R(0)
  /\ max_BM_w1_position' = R(0)
  /\ i' = 0
  /\ pc' = "scanBM"
  /\ UNCHANGED <<inputs, err, fields, reactionMax, shearMax, results>>

(* Variant: a later row replaces an equal maximum.                         *)
MomentImproves_Ge(candidate, best) == RGe(candidate, best)

(* the test of line 143 *)
MomentImproves(candidate, best) == RGt(candidate, best)

(* the body of the loop of lines 141-146 applied to the running maximum    *)
(* acc = <<max_BM, max_BM_position, max_BM_w1_position>>                   *)
ScanBMStep(acc, pos, row, y) ==
  LET max_index == ArgMax(row) IN
    IF MomentImproves(row[max_index], acc[1])
    THEN <<row[max_index], pos[max_index], y>>
    ELSE acc

ScanBM ==
  /\ pc = "scanBM"
  /\ i < num_points
  /\ LET acc == ScanBMStep(momentMax, positions, BM_values[i], positions[i])
     IN /\ max_BM' = acc[1]
        /\ max_BM_position' = acc[2]
        /\ max_BM_w1_position' = acc[3]
  /\ i' = i + 1
  /\ UNCHANGED <<inputs, pc, err, fields, reactionMax, shearMax, results>>

(* max_BM of a whole analysis on n grid points: lines 37, 50-113 (moment   *)
(* rows) and 137-146 (the scan), as a function of the resolution.          *)
RECURSIVE ScanBMFrom(_, _, _)
ScanBMFrom(acc, pos, k) ==
  IF k \notin DOMAIN pos THEN acc
  ELSE ScanBMFrom(ScanBMStep(acc, pos, MomentRow(pos, pos[k]), pos[k]),
                  pos, k + 1)

MaxBMAt(n) == ScanBMFrom(<<NegInf, R(0), R(0)>>, Linspace(L, n), 0)[1]

(* |positions - 0.5 * L|, line 154 *)
MidDistance(pos) ==
  [k \in DOMAIN pos |-> RAbs(RSub(pos[k], RDiv(R(L), R(2))))]

(* lines 148-173 *)
Return ==
  /\ pc = "scanBM"
  /\ i = num_points
  /\ results' =
       [max_reaction_A |-> Ra_values[max_Ra_index],
        max_reaction_A_position |-> positions[max_Ra_index],
        max_reaction_B |-> Rb_values[max_Rb_index],
        max_reaction_B_position |-> positions[max_Rb_index],
        BM_01 |-> BM_values[0][0],
        SF01 |-> SFvalues[0][ArgMin(MidDistance(positions))],
        max_SF |-> max_SF,
        max_SF_position |-> max_SF_position,
        max_SF_w1_position |-> max_SF_w1_position,
        max_BM |-> max_BM,
        max_BM_position |-> max_BM_position,
        max_BM_w1_position |-> max_BM_w1_position]
  /\ pc' = "done"
  /\ UNCHANGED <<inputs, err, i, fields, reactionMax, shearMax, momentMax>>

Next ==
  \/ Validate
  \/ BuildGrid
  \/ SweepRow
  \/ FindMaxReactions
  \/ ScanSF
  \/ BeginScanBM
  \/ ScanBM
  \/ Return

Spec == Init /\ [][Next]_vars

-----------------------------------------------------------------------------
(* Properties.                                                             *)

Idx == DOMAIN positions
Swept == pc \in {"scanSF", "scanBM", "done"}
RowDone(k) == Swept \/ (pc = "sweep" /\ k < i)
OnSpan(y) == RLe(RAdd(y, R(x)), R(L))
Invalid == L <= 0 \/ x < 0 \/ x > L \/ W1 <= 0 \/ W2 <= 0

(* C2: for every reference position y already swept, Ra + Rb = W1 + W2     *)
(* when y + x <= L and Ra + Rb = W1 when y + x > L.                        *)
C2_Equilibrium ==
  \A k \in Idx : RowDone(k) =>
    LET total == RAdd(Ra_values[k], Rb_values[k]) IN
      IF OnSpan(positions[k]) THEN total = R(W1 + W2) ELSE total = R(W1)

C2_Witness ==
  /\ Swept
  /\ x > 0
  /\ \E k \in Idx : OnSpan(positions[k]) /\ positions[k] # R(0)
  /\ \E k \in Idx : ~OnSpan(positions[k])

(* C3: analyze_beam raises exactly when L <= 0, x < 0, x > L, W1 <= 0 or   *)
(* W2 <= 0; when it raises, no grid, reaction, shear or moment value has   *)
(* been computed, no result exists and nothing further runs.               *)
C3_Validation ==
  /\ pc # "validate" => (pc = "raised" <=> Invalid)
  /\ pc = "raised" <=> err # "none"
  /\ pc = "raised" =>
       /\ DOMAIN positions = {}
       /\ DOMAIN Ra_values = {} /\ DOMAIN Rb_values = {}
       /\ DOMAIN SFvalues = {} /\ DOMAIN BM_values = {}
       /\ DOMAIN results = {}
       /\ ~ENABLED Next

C3_Witness ==
  /\ pc = "raised"
  /\ err = "distance"
  /\ L > 0 /\ x = L + 1 /\ W1 > 0 /\ W2 > 0

(* C6: for every reference position already swept, 0 <= Ra <= W1 + W2 and *)
(* 0 <= Rb <= W1 + W2.                                                     *)
C6_ReactionBounds ==
  \A k \in Idx : RowDone(k) =>
    /\ RLe(R(0), Ra_values[k]) /\ RLe(Ra_values[k], R(W1 + W2))
    /\ RLe(R(0), Rb_values[k]) /\ RLe(Rb_values[k], R(W1 + W2))

C6_Witness ==
  /\ pc = "done"
  /\ x > 0
  /\ \E k \in Idx : ~OnSpan(positions[k]) /\ Rb_values[k] = R(W1)
  /\ \E k \in Idx : Ra_values[k] = R(0)

(* Entry (a, b) is largest in absolute value / largest in the field.       *)
TopShear(a, b) ==
  \A c \in Idx : \A d \in Idx :
    RLe(RAbs(SFvalues[c][d]), RAbs(SFvalues[a][b]))
TopMoment(a, b) ==
  \A c \in Idx : \A d \in Idx : RLe(BM_values[c][d], BM_values[a][b])

(* C1: the returned max_SF is finite and is the signed value of an entry   *)
(* of the shear field that is largest in absolute value over all           *)
(* (reference, observation) pairs, in the first reference row holding such *)
(* an entry; max_SF_position and max_SF_w1_position are that entry's       *)
(* observation and reference coordinates.                                  *)
C1_MaxShear ==
  pc = "done" =>
    /\ IsFinite(results.max_SF)
    /\ \E a \in Idx : \E b \in Idx :
         /\ TopShear(a, b)
         /\ \A c \in Idx : \A d \in Idx : c < a => ~TopShear(c, d)
         /\ results.max_SF = SFvalues[a][b]
         /\ results.max_SF_position = positions[b]
         /\ results.max_SF_w1_position = positions[a]

(* C4: the returned max_BM is at least every entry of the moment field and *)
(* equals BM[a][b] for the smallest reference index a whose row holds the  *)
(* overall maximum and the smallest observation index b attaining it in    *)
(* that row; the two positions are the coordinates of a and b.             *)
C4_MaxMoment ==
  pc = "done" =>
    /\ \A c \in Idx : \A d \in Idx : RLe(BM_values[c][d], results.max_BM)
    /\ \E a \in Idx : \E b \in Idx :
         /\ TopMoment(a, b)
         /\ \A c \in Idx : \A d \in Idx : c < a => ~TopMoment(c, d)
         /\ \A d \in Idx : d < b => ~TopMoment(a, d)
         /\ results.max_BM = BM_values[a][b]
         /\ results.max_BM_w1_position = positions[a]
         /\ results.max_BM_position = positions[b]

C4_Witness ==
  /\ pc = "done"
  /\ RGt(results.max_BM, R(0))
  /\ \E a \in Idx : \E b \in Idx : \E c \in Idx : \E d \in Idx :
       a < c /\ TopMoment(a, b) /\ TopMoment(c, d)

(* C5: max_reaction_A (max_reaction_B) is the largest Ra (Rb) over the     *)
(* grid and its position is the coordinate of the smallest index that      *)
(* attains it.                                                             *)
C5_MaxReactions ==
  pc = "done" =>
    /\ \E a \in Idx :
         /\ \A k \in Idx : RLe(Ra_values[k], Ra_values[a])
         /\ \A k \in Idx : k < a => Ra_values[k] # Ra_values[a]
         /\ results.max_reaction_A = Ra_values[a]
         /\ results.max_reaction_A_position = positions[a]
    /\ \E a \in Idx :
         /\ \A k \in Idx : RLe(Rb_values[k], Rb_values[a])
         /\ \A k \in Idx : k < a => Rb_values[k] # Rb_values[a]
         /\ results.max_reaction_B = Rb_values[a]
         /\ results.max_reaction_B_position = positions[a]

C5_Witness ==
  /\ pc = "done"
  /\ \E a \in Idx : \E c \in Idx :
       /\ a < c
       /\ Rb_values[a] = Rb_values[c]
       /\ \A k \in Idx : RLe(Rb_values[k], Rb_values[a])

AnalyticBound == RDiv(R((W1 + W2) * L), R(4))

(* C8: no entry of the moment field exceeds (W1 + W2) * L / 4, and neither *)
(* does the returned max_BM.                                               *)
C8_AnalyticBound ==
  /\ \A k \in Idx : \A j \in Idx : RLe(BM_values[k][j], AnalyticBound)
  /\ pc = "done" => RLe(results.max_BM, AnalyticBound)

C8_Witness ==
  /\ pc = "done"
  /\ results.max_BM = AnalyticBound

(* A distance below every positive gap between the two load positions.     *)
Eps == IF x > 0 THEN RDiv(R(x), R(2)) ELSE R(1)

(* C9: at an observation point that coincides with a load position (z = y, *)
(* or z = y + x while y + x <= L) the stored shear is the average of the   *)
(* shear just left and just right of that point.                           *)
C9_Midpoint ==
  \A k \in Idx : \A j \in Idx : RowDone(k) =>
    LET y == positions[k]
        z == positions[j]
        b == RAdd(y, R(x))
        Ra == Ra_values[k]
        left == ShearForce(RSub(z, Eps), y, Ra)
        right == ShearForce(RAdd(z, Eps), y, Ra)
    IN (z = y \/ (z = b /\ OnSpan(y))) =>
         SFvalues[k][j] = RDiv(RAdd(left, right), R(2))

RMax0(a) == IF RLt(a, R(0)) THEN R(0) ELSE a

(* C10: every stored moment equals Ra*z - W1*max(0, z - y)                 *)
(* - (W2*max(0, z - b) if b <= L, else 0), and the moment is 0 at both     *)
(* supports for every reference position.                                  *)
C10_Superposition ==
  \A k \in Idx : RowDone(k) =>
    LET y == positions[k]
        b == RAdd(y, R(x))
        Ra == Ra_values[k]
    IN /\ \A j \in Idx :
            LET z == positions[j] IN
              BM_values[k][j] =
                RSub(RSub(RMul(Ra, z), RMul(R(W1), RMax0(RSub(z, y)))),
                     IF OnSpan(y) THEN RMul(R(W2), RMax0(RSub(z, b)))
                     ELSE R(0))
       /\ BM_values[k][0] = R(0)
       /\ BM_values[k][num_points - 1] = R(0)

C10_Witness ==
  /\ Swept
  /\ x > 0
  /\ \E k \in Idx : \E j \in Idx :
       /\ OnSpan(positions[k])
       /\ positions[j] = RAdd(positions[k], R(x))
       /\ RGt(BM_values[k][j], R(0))
  /\ \E k \in Idx : ~OnSpan(positions[k]) /\ RGt(BM_values[k][k], R(0))

(* The grid on n points is part of the grid on num_points points.          *)
Refines(n) == (num_points - 1) % (n - 1) = 0

(* C7 as stated: for every pair of resolutions n < num_points the max_BM   *)
(* computed on num_points points is not smaller than the one computed on   *)
(* n points.                                                               *)
C7_Monotone ==
  pc = "done" =>
    \A n \in 2 .. (num_points - 1) : RLe(MaxBMAt(n), results.max_BM)

(* C7 amended: the same for every pair n < num_points in which n - 1       *)
(* divides num_points - 1, so that every point of the coarser grid is a    *)
(* point of the finer grid.                                                *)
C7_MonotoneNested ==
  pc = "done" =>
    \A n \in 2 .. (num_points - 1) :
      Refines(n) => RLe(MaxBMAt(n), results.max_BM)

C7_Witness ==
  /\ pc = "done"
  /\ \E n \in 3 .. (num_points - 1) :
       /\ Refines(n)
       /\ RLt(R(0), MaxBMAt(n))
       /\ RLt(MaxBMAt(n), results.max_BM)

====
